---- MODULE Spec2Model ----
(***************************************************************************)
(* PuppyGraph graph-store adapter                                          *)
(* (libs/community/langchain_community/graphs/puppygraph_graph.py).        *)
(*                                                                         *)
(* The adapter object is modelled together with the external puppygraph    *)
(* client, which is a recording double: every call the adapter makes on it *)
(* is appended to `calls` with the outcome the client chose (a value or a  *)
(* raised error).  `ret` is what the latest public operation handed back   *)
(* to its caller: a returned value or a raised exception.                  *)
(*                                                                         *)
(* A JSON text is modelled by its syntax: Invalid (text json.loads         *)
(* rejects), Str, Arr (items in textual order) and Obj (members in textual *)
(* order, <<key, text>> pairs).  json_loads turns a text into Python       *)
(* values: a dict is a function on its keys, a list a sequence, a str a    *)
(* string.                                                                 *)
(***************************************************************************)
EXTENDS Naturals, Sequences, FiniteSets

VARIABLES
    phase,              \* "new" | "open" (constructed) | "failed" (__init__ raised)
    library,            \* TRUE iff `import puppygraph` succeeds in this environment
    _query_language,    \* self._query_language
    _client,            \* self._client: "unset" | "client"
    _schema_json_str,   \* self._schema_json_str (a JSON text), or Unset
    calls,              \* the calls made on the external client, oldest first
    ret                 \* outcome of the latest public operation

vars == <<phase, library, _query_language, _client, _schema_json_str, calls, ret>>

_GREMLIN_STR == "gremlin"
_CYPHER_STR == "cypher"

\* Bounds of the model.
MaxCalls == 4       \* length of the log of client calls (construction makes two)
MaxVertices == 2    \* vertex definitions in a generated schema
MaxEdges == 2       \* edge definitions in a generated schema

Unset == [tok |-> "unset"]

----------------------------------------------------------------------------
\* JSON texts and json.loads

Invalid == [tok |-> "invalid"]
Str(s) == [tok |-> "string", s |-> s]
Arr(items) == [tok |-> "array", items |-> items]
Obj(members) == [tok |-> "object", members |-> members]

\* The largest element of a non-empty set of naturals.
MaxOf(S) == CHOOSE m \in S : \A n \in S : n <= m

\* dict(items) for a sequence of <<key, value>> pairs: a later pair with the
\* same key replaces the earlier one.
DictFromItems(items) ==
    LET keys == {items[i][1] : i \in DOMAIN items}
    IN  [k \in keys |-> items[MaxOf({i \in DOMAIN items : items[i][1] = k})][2]]

RECURSIVE JSONDecodeError(_)
\* TRUE iff json.loads raises on the text.
JSONDecodeError(t) ==
    CASE t.tok = "string" -> FALSE
      [] t.tok = "array" -> \E i \in DOMAIN t.items : JSONDecodeError(t.items[i])
      [] t.tok = "object" ->
            \E i \in DOMAIN t.members : JSONDecodeError(t.members[i][2])
      [] OTHER -> TRUE

RECURSIVE json_loads(_)
\* The Python value json.loads returns for a text it accepts.
json_loads(t) ==
    CASE t.tok = "string" -> t.s
      [] t.tok = "array" -> [i \in DOMAIN t.items |-> json_loads(t.items[i])]
      [] t.tok = "object" ->
            DictFromItems([i \in DOMAIN t.members |->
                              <<t.members[i][1], json_loads(t.members[i][2])>>])

----------------------------------------------------------------------------
\* Outcomes of an operation

Return(v) == [status |-> "return", value |-> v]
Raise(e) == [status |-> "raise", exc |-> e]
None == [tok |-> "None"]

----------------------------------------------------------------------------
\* _to_structured_schema

\* d.get(key, default)
DictGet(d, key, default) == IF key \in DOMAIN d THEN d[key] ELSE default

\* bool(d.get("attributes")): the key is present and its list is not empty.
HasAttributes(d) == "attributes" \in DOMAIN d /\ Len(d["attributes"]) > 0

\* [{"property": attr["name"], "type": attr["type"]} for attr in attributes]
PropertyList(attributes) ==
    [i \in DOMAIN attributes |->
        [property |-> attributes[i]["name"], type |-> attributes[i]["type"]]]

\* The edges passing `if edge.get("attributes")`, in order.
WithAttributes(edges) ==
    LET F[i \in 0..Len(edges)] ==
            IF i = 0 THEN <<>>
            ELSE IF HasAttributes(edges[i]) THEN Append(F[i - 1], edges[i])
            ELSE F[i - 1]
    IN  F[Len(edges)]

\* {vertex["label"]: [...] for vertex in schema_dict["vertices"]}
NodeProps(vertices) ==
    DictFromItems([i \in DOMAIN vertices |->
        <<vertices[i]["label"],
          PropertyList(DictGet(vertices[i], "attributes", <<>>))>>])

\* Variant: the comprehension without its `if edge.get("attributes")` filter.
RelProps_Unfiltered(edges) ==
    DictFromItems([i \in DOMAIN edges |->
        <<edges[i]["label"],
          PropertyList(DictGet(edges[i], "attributes", <<>>))>>])

\* {edge["label"]: [...] for edge in schema_dict["edges"] if edge.get("attributes")}
RelProps(edges) ==
    LET kept == WithAttributes(edges)
    IN  DictFromItems([i \in DOMAIN kept |->
            <<kept[i]["label"],
              PropertyList(DictGet(kept[i], "attributes", <<>>))>>])

\* Variant: relationships built only from the edges rel_props keeps.
Relationships_OnlyWithAttributes(edges) ==
    LET kept == WithAttributes(edges)
    IN  [i \in DOMAIN kept |->
            [start |-> kept[i]["from"], end |-> kept[i]["to"],
             type |-> kept[i]["label"]]]

\* [{"start": ..., "end": ..., "type": ...} for edge in schema_dict["edges"]]
Relationships(edges) ==
    [i \in DOMAIN edges |->
        [start |-> edges[i]["from"], end |-> edges[i]["to"],
         type |-> edges[i]["label"]]]

\* Variant: missing top-level keys read as empty lists
\* (schema_dict.get("vertices", []) in place of schema_dict["vertices"]).
_to_structured_schema_lenient(schema_json_str) ==
    IF JSONDecodeError(schema_json_str) THEN Raise(<<"JSONDecodeError">>)
    ELSE LET schema_dict == json_loads(schema_json_str)
             vertices == DictGet(schema_dict, "vertices", <<>>)
             edges == DictGet(schema_dict, "edges", <<>>)
         IN  Return([node_props |-> NodeProps(vertices),
                     rel_props |-> RelProps(edges),
                     relationships |-> Relationships(edges)])

\* json.loads raises on text that is not JSON; the three comprehensions are
\* evaluated in order, so a missing "vertices" is reported before a missing
\* "edges"; nothing is returned when either raises.
_to_structured_schema(schema_json_str) ==
    IF JSONDecodeError(schema_json_str) THEN Raise(<<"JSONDecodeError">>)
    ELSE LET schema_dict == json_loads(schema_json_str)
         IN  IF "vertices" \notin DOMAIN schema_dict
                 THEN Raise(<<"KeyError", "vertices">>)
             ELSE IF "edges" \notin DOMAIN schema_dict
                 THEN Raise(<<"KeyError", "edges">>)
             ELSE Return([node_props |-> NodeProps(schema_dict["vertices"]),
                          rel_props |-> RelProps(schema_dict["edges"]),
                          relationships |-> Relationships(schema_dict["edges"])])

----------------------------------------------------------------------------
\* Inputs and the client's possible answers

QueryLanguages == {"gremlin", "cypher", "sparql", "GREMLIN"}
Hosts == {"127.0.0.1"}
QueryTexts == {"g.V().count()", "MATCH (n) RETURN n"}
EmptyDict == [k \in {} |-> None]
ParamsSet == {EmptyDict, [name |-> "Alice"]}
RowsSet == {<<[n |-> "1"]>>}
ClientErrors == {"ConnectionError"}
DocumentLists == {<<>>, <<"doc">>}

AttrText(name, type) == Obj(<<<<"name", Str(name)>>, <<"type", Str(type)>>>>)

\* A vertex definition; attributes = None leaves the "attributes" key out.
VertexText(label, attributes) ==
    Obj(<<<<"label", Str(label)>>>> \o
        (IF attributes = None THEN <<>> ELSE <<<<"attributes", attributes>>>>))

\* An edge definition; attributes = None leaves the "attributes" key out.
EdgeText(label, from, to, attributes) ==
    Obj(<<<<"label", Str(label)>>, <<"from", Str(from)>>, <<"to", Str(to)>>>> \o
        (IF attributes = None THEN <<>> ELSE <<<<"attributes", attributes>>>>))

SchemaText(vertices, edges) ==
    Obj(<<<<"vertices", Arr(vertices)>>, <<"edges", Arr(edges)>>>>)

\* {"vertices":[{"label":"Person","attributes":[{"name":"age","type":"int"}]}],
\*  "edges":[{"label":"KNOWS","from":"Person","to":"Person","attributes":[]}]}
PersonKnowsText ==
    SchemaText(<<VertexText("Person", Arr(<<AttrText("age", "int")>>))>>,
               <<EdgeText("KNOWS", "Person", "Person", Arr(<<>>))>>)

\* {"vertices":[{"label":"City"}],
\*  "edges":[{"label":"LIVES_IN","from":"Person","to":"City",
\*            "attributes":[{"name":"since","type":"date"}]}]}
CityLivesInText ==
    SchemaText(<<VertexText("City", None)>>,
               <<EdgeText("LIVES_IN", "Person", "City",
                          Arr(<<AttrText("since", "date")>>))>>)

\* Texts the client's get_schema may return: not JSON, "{}", an object with
\* only "edges", an object with only "vertices", and two well-formed schemas.
SchemaTexts ==
    { Invalid,
      Obj(<<>>),
      Obj(<<<<"edges", Arr(<<>>)>>>>),
      Obj(<<<<"vertices", Arr(<<>>)>>>>),
      PersonKnowsText,
      CityLivesInText }

----------------------------------------------------------------------------
\* The adapter

Call(op, kwargs, outcome) == [op |-> op, kwargs |-> kwargs, outcome |-> outcome]
Result(op, args, outcome) == [op |-> op, args |-> args, outcome |-> outcome]

Init ==
    /\ phase = "new"
    /\ library \in BOOLEAN
    /\ _query_language = "unset"
    /\ _client = "unset"
    /\ _schema_json_str = Unset
    /\ calls = <<>>
    /\ ret = Result("none", <<>>, Return(None))

\* Variant: no validation of the language.
ValidLanguage_Any(query_language) == TRUE

\* Variant: the language compared case-insensitively.
ValidLanguage_IgnoreCase(query_language) ==
    query_language \in {_GREMLIN_STR, _CYPHER_STR, "GREMLIN", "CYPHER"}

\* not (query_language not in [_GREMLIN_STR, _CYPHER_STR])
ValidLanguage(query_language) == query_language \in {_GREMLIN_STR, _CYPHER_STR}

\* PuppyGraph.__init__ up to a raised exception or the end of the body.
\* ctor is the outcome of PuppyGraphClient(config=...), fetch the outcome of
\* the first client.get_schema(); each is consulted only if the call is made.
Construct(query_language, ip_address, ctor, fetch) ==
    LET args == [query_language |-> query_language, ip_address |-> ip_address,
                 username |-> "puppygraph", password |-> "puppygraph123"]
        config == [ip |-> ip_address, username |-> "puppygraph",
                   password |-> "puppygraph123"]
        ctorCall == Call("PuppyGraphClient", config, ctor)
        fetchCall == Call("get_schema", EmptyDict, fetch)
    IN  /\ phase = "new"
        /\ UNCHANGED library
        /\ IF ~library THEN
               /\ ret' = Result("__init__", args, Raise("ImportError"))
               /\ phase' = "failed"
               /\ UNCHANGED <<_query_language, _client, _schema_json_str, calls>>
           ELSE IF ~ValidLanguage(query_language) THEN
               /\ ret' = Result("__init__", args, Raise("ValueError"))
               /\ phase' = "failed"
               /\ UNCHANGED <<_query_language, _client, _schema_json_str, calls>>
           ELSE IF ctor.status = "raise" THEN
               /\ _query_language' = query_language
               /\ calls' = <<ctorCall>>
               /\ ret' = Result("__init__", args, ctor)
               /\ phase' = "failed"
               /\ UNCHANGED <<_client, _schema_json_str>>
           ELSE IF fetch.status = "raise" THEN
               /\ _query_language' = query_language
               /\ _client' = "client"
               /\ calls' = <<ctorCall, fetchCall>>
               /\ ret' = Result("__init__", args, fetch)
               /\ phase' = "failed"
               /\ UNCHANGED _schema_json_str
           ELSE
               /\ _query_language' = query_language
               /\ _client' = "client"
               /\ calls' = <<ctorCall, fetchCall>>
               /\ _schema_json_str' = fetch.value
               /\ ret' = Result("__init__", args, Return(None))
               /\ phase' = "open"

\* The property get_schema.
get_schema == _schema_json_str

GetSchema ==
    /\ phase = "open"
    /\ ret' = Result("get_schema", <<>>, Return(get_schema))
    /\ UNCHANGED <<phase, library, _query_language, _client, _schema_json_str, calls>>

\* Variant: the structured form computed once, from the construction-time fetch.
get_structured_schema_cached == _to_structured_schema(calls[2].outcome.value)

\* The property get_structured_schema.
get_structured_schema == _to_structured_schema(_schema_json_str)

GetStructuredSchema ==
    /\ phase = "open"
    /\ ret' = Result("get_structured_schema", <<>>, get_structured_schema)
    /\ UNCHANGED <<phase, library, _query_language, _client, _schema_json_str, calls>>

\* Variant: params forwarded on the Gremlin path too.
QueryCall_ParamsToGremlin(query, params, outcome) ==
    IF _query_language = _GREMLIN_STR
        THEN Call("gremlin_query", [query |-> query, params |-> params], outcome)
    ELSE IF _query_language = _CYPHER_STR
        THEN Call("cypher_query", [query |-> query, params |-> params], outcome)
    ELSE None

\* The client call PuppyGraph.query makes for the configured language, with
\* the outcome the client gives it; None when the ValueError branch is taken.
QueryCall(query, params, outcome) ==
    IF _query_language = _GREMLIN_STR
        THEN Call("gremlin_query", [query |-> query], outcome)
    ELSE IF _query_language = _CYPHER_STR
        THEN Call("cypher_query", [query |-> query, params |-> params], outcome)
    ELSE None

\* Variant: a failed client call is tried a second time.
Query_RetryOnce(query, params, outcome) ==
    LET args == [query |-> query, params |-> params]
        call == QueryCall(query, params, outcome)
    IN  /\ phase = "open"
        /\ Len(calls) < MaxCalls
        /\ IF call = None
               THEN /\ ret' = Result("query", args, Raise("ValueError"))
                    /\ UNCHANGED calls
               ELSE /\ calls' = IF outcome.status = "raise"
                                    THEN Append(Append(calls, call), call)
                                    ELSE Append(calls, call)
                    /\ ret' = Result("query", args, outcome)
        /\ UNCHANGED <<phase, library, _query_language, _client, _schema_json_str>>

\* PuppyGraph.query: one client call on the path the language selects; its
\* value is returned, its exception propagates.
Query(query, params, outcome) ==
    LET args == [query |-> query, params |-> params]
        call == QueryCall(query, params, outcome)
    IN  /\ phase = "open"
        /\ Len(calls) < MaxCalls
        /\ IF call = None
               THEN /\ ret' = Result("query", args, Raise("ValueError"))
                    /\ UNCHANGED calls
               ELSE /\ calls' = Append(calls, call)
                    /\ ret' = Result("query", args, outcome)
        /\ UNCHANGED <<phase, library, _query_language, _client, _schema_json_str>>

\* Variant: a failed fetch clears the cache.
RefreshedSchema_ClearOnFailure(outcome) ==
    IF outcome.status = "return" THEN outcome.value ELSE Unset

\* The cached schema after client.get_schema() ended with `outcome`: the
\* assignment happens only if the call returned.
RefreshedSchema(outcome) ==
    IF outcome.status = "return" THEN outcome.value ELSE _schema_json_str

RefreshSchema(outcome) ==
    /\ phase = "open"
    /\ Len(calls) < MaxCalls
    /\ calls' = Append(calls, Call("get_schema", EmptyDict, outcome))
    /\ _schema_json_str' = RefreshedSchema(outcome)
    /\ ret' = Result("refresh_schema", <<>>,
                     IF outcome.status = "return" THEN Return(None) ELSE outcome)
    /\ UNCHANGED <<phase, library, _query_language, _client>>

\* Variant: an empty document list is accepted as a no-op.
AddGraphDocuments_EmptyOk(graph_documents, include_source) ==
    /\ phase = "open"
    /\ ret' = Result("add_graph_documents",
                     [graph_documents |-> graph_documents,
                      include_source |-> include_source],
                     IF graph_documents = <<>> THEN Return(None)
                     ELSE Raise("NotImplementedError"))
    /\ UNCHANGED <<phase, library, _query_language, _client, _schema_json_str, calls>>

\* PuppyGraph.add_graph_documents: raises whatever it is given.
AddGraphDocuments(graph_documents, include_source) ==
    /\ phase = "open"
    /\ ret' = Result("add_graph_documents",
                     [graph_documents |-> graph_documents,
                      include_source |-> include_source],
                     Raise("NotImplementedError"))
    /\ UNCHANGED <<phase, library, _query_language, _client, _schema_json_str, calls>>

ClientFailures == {Raise(e) : e \in ClientErrors}
CtorOutcomes == {Return("client")} \cup ClientFailures
FetchOutcomes == {Return(t) : t \in SchemaTexts} \cup ClientFailures
QueryOutcomes == {Return(r) : r \in RowsSet} \cup ClientFailures

Next ==
    \/ \E ql \in QueryLanguages, ip \in Hosts,
          ctor \in CtorOutcomes, fetch \in FetchOutcomes :
            Construct(ql, ip, ctor, fetch)
    \/ GetSchema
    \/ GetStructuredSchema
    \/ \E q \in QueryTexts, p \in ParamsSet, o \in QueryOutcomes : Query(q, p, o)
    \/ \E o \in FetchOutcomes : RefreshSchema(o)
    \/ \E d \in DocumentLists, s \in BOOLEAN : AddGraphDocuments(d, s)

Spec == Init /\ [][Next]_vars

----------------------------------------------------------------------------
\* The normalizer over generated well-formed schemas: the adapter has just
\* been constructed and the client's get_schema returned the generated text.

SeqsUpTo(S, n) == UNION {[1..k -> S] : k \in 0..n}

VertexLabels == {"Person", "City"}
VertexAttributeTexts ==
    { None, Arr(<<>>), Arr(<<AttrText("name", "str"), AttrText("age", "int")>>) }
VertexTexts == {VertexText(l, a) : l \in VertexLabels, a \in VertexAttributeTexts}

EdgeAttributeTexts ==
    { None, Arr(<<>>), Arr(<<AttrText("since", "date")>>),
      Arr(<<AttrText("weight", "float"), AttrText("since", "date")>>) }
EdgeTexts ==
    {EdgeText("KNOWS", "Person", "Person", a) : a \in EdgeAttributeTexts}
        \cup {EdgeText("LIVES_IN", "Person", "City", a) : a \in EdgeAttributeTexts}

GeneratedSchemaTexts ==
    {SchemaText(vs, es) : vs \in SeqsUpTo(VertexTexts, MaxVertices),
                          es \in SeqsUpTo(EdgeTexts, MaxEdges)}

NormInit ==
    /\ phase = "open"
    /\ library = TRUE
    /\ _query_language = _GREMLIN_STR
    /\ _client = "client"
    /\ _schema_json_str \in GeneratedSchemaTexts
    /\ calls = << Call("PuppyGraphClient",
                       [ip |-> "127.0.0.1", username |-> "puppygraph",
                        password |-> "puppygraph123"], Return("client")),
                  Call("get_schema", EmptyDict, Return(_schema_json_str)) >>
    /\ ret = Result("__init__",
                    [query_language |-> _GREMLIN_STR, ip_address |-> "127.0.0.1",
                     username |-> "puppygraph", password |-> "puppygraph123"],
                    Return(None))

NormNext == GetStructuredSchema

NormSpec == NormInit /\ [][NormNext]_vars

----------------------------------------------------------------------------
\* Properties of the adapter (under Spec)

Languages == {_GREMLIN_STR, _CYPHER_STR}

\* The last element of a non-empty sequence.
Last(log) == log[Len(log)]

\* log is old with exactly one call appended.
OneMoreCall(old, log) ==
    /\ Len(log) = Len(old) + 1
    /\ SubSeq(log, 1, Len(old)) = old

\* The text returned by the most recent client get_schema that returned.
LastFetched(log) ==
    LET fetched == {i \in DOMAIN log : /\ log[i].op = "get_schema"
                                       /\ log[i].outcome.status = "return"}
    IN  log[MaxOf(fetched)].outcome.value

\* The text has a top-level member named key (read off the text itself).
HasMember(t, key) ==
    t.tok = "object" /\ \E i \in DOMAIN t.members : t.members[i][1] = key

\* Not JSON, or a JSON object without "vertices" or without "edges".
Malformed(t) ==
    \/ t.tok = "invalid"
    \/ t.tok = "object" /\ (~HasMember(t, "vertices") \/ ~HasMember(t, "edges"))

ConstructedWithInvalidLanguage ==
    /\ ret.op = "__init__"
    /\ ret.args.query_language \notin Languages

\* C1 as stated: construction with a query_language outside
\* {"gremlin", "cypher"} fails with ValueError in every environment, the one
\* without the client library included, and no client call is made.
C1_ValueErrorInEveryEnvironment ==
    ConstructedWithInvalidLanguage =>
        /\ ret.outcome = Raise("ValueError")
        /\ calls = <<>>

\* C1 amended: construction with a query_language outside {"gremlin", "cypher"}
\* always fails and makes no client call; the failure is ValueError where the
\* client library can be imported and ImportError where it cannot (the import
\* is attempted before the language is validated).
C1_InvalidLanguageRejected ==
    ConstructedWithInvalidLanguage =>
        /\ ret.outcome = IF library THEN Raise("ValueError") ELSE Raise("ImportError")
        /\ calls = <<>>
        /\ _client = "unset"
        /\ phase = "failed"

C1_Witness ==
    /\ ConstructedWithInvalidLanguage
    /\ library
    /\ ret.outcome = Raise("ValueError")

\* C2: every query(text, params) makes exactly one client call: gremlin_query(text)
\* without params when the language is "gremlin", cypher_query(text, params)
\* with params unchanged when it is "cypher", never the other one; what the
\* caller gets is the outcome of that call, unmodified.
C2_QueryRouting ==
    [][ret'.op = "query" =>
          /\ OneMoreCall(calls, calls')
          /\ _query_language = _GREMLIN_STR =>
                /\ Last(calls').op = "gremlin_query"
                /\ Last(calls').kwargs = [query |-> ret'.args.query]
          /\ _query_language = _CYPHER_STR =>
                /\ Last(calls').op = "cypher_query"
                /\ Last(calls').kwargs = [query |-> ret'.args.query,
                                          params |-> ret'.args.params]
          /\ ret'.outcome = Last(calls').outcome]_vars

C2_Witness ==
    /\ ret.op = "query"
    /\ _query_language = _CYPHER_STR
    /\ ret.args.params = [name |-> "Alice"]
    /\ Last(calls).op = "cypher_query"
    /\ Last(calls).kwargs.params = [name |-> "Alice"]
    /\ ret.outcome = Return(<<[n |-> "1"]>>)

\* C3: whatever operations came before, get_schema returns exactly the text of
\* the most recent client schema fetch that succeeded (at construction or in
\* refresh_schema), and reading it makes no client call.
C3_GetSchemaIsLastFetch ==
    [][ret'.op = "get_schema" =>
          /\ calls' = calls
          /\ ret'.outcome = Return(LastFetched(calls))]_vars

C3_Witness ==
    /\ ret.op = "get_schema"
    /\ Len(calls) = 4
    /\ calls[3].op = "get_schema" /\ calls[3].outcome.status = "return"
    /\ calls[3].outcome.value # calls[2].outcome.value
    /\ calls[4].op = "get_schema" /\ calls[4].outcome.status = "raise"
    /\ ret.outcome = Return(calls[3].outcome.value)

\* C4: add_graph_documents raises NotImplementedError for every input, the
\* empty list included, in every state of the adapter, and changes neither
\* the client call log, the cached schema nor the language.
C4_AddGraphDocumentsUnsupported ==
    [][ret'.op = "add_graph_documents" =>
          /\ ret'.outcome = Raise("NotImplementedError")
          /\ calls' = calls
          /\ _schema_json_str' = _schema_json_str
          /\ _query_language' = _query_language]_vars

C4_Witness ==
    /\ ret.op = "add_graph_documents"
    /\ ret.args.graph_documents = <<>>
    /\ ret.args.include_source
    /\ Len(calls) > 2
    /\ ret.outcome = Raise("NotImplementedError")

\* C5: while the cached text is malformed, get_structured_schema raises
\* (JSONDecodeError or KeyError) and returns nothing, get_schema still returns
\* the raw text, neither read changes the cached text, and once the cached
\* text is well-formed again get_structured_schema returns.
C5_MalformedSchema ==
    [][/\ ret'.op = "get_structured_schema" =>
            /\ _schema_json_str' = _schema_json_str
            /\ Malformed(_schema_json_str) =>
                  /\ ret'.outcome.status = "raise"
                  /\ ret'.outcome.exc[1] \in {"JSONDecodeError", "KeyError"}
            /\ ~Malformed(_schema_json_str) => ret'.outcome.status = "return"
       /\ (ret'.op = "get_schema" /\ Malformed(_schema_json_str)) =>
            /\ ret'.outcome = Return(_schema_json_str)
            /\ _schema_json_str' = _schema_json_str]_vars

C5_Witness ==
    /\ ret.op = "get_structured_schema"
    /\ _schema_json_str = Obj(<<>>)
    /\ ret.outcome = Raise(<<"KeyError", "vertices">>)

\* C8: the language of a constructed adapter is "gremlin" or "cypher", no
\* operation changes it, and query never takes its ValueError branch.
C8_LanguageInvariant ==
    [][/\ phase' = "open" => _query_language' \in Languages
       /\ phase = "open" => _query_language' = _query_language
       /\ ret'.op = "query" => ret'.outcome # Raise("ValueError")]_vars

C8_Witness ==
    /\ ret.op = "query"
    /\ Len(calls) = 4
    /\ calls[3].op = "get_schema"
    /\ _query_language = _CYPHER_STR

\* C9: each read of get_structured_schema is the normalizer applied to the
\* text cached at that moment, which is the most recently fetched one, not an
\* earlier one; the read makes no client call and leaves the cache as it is.
C9_StructuredNeverStale ==
    [][ret'.op = "get_structured_schema" =>
          /\ ret'.outcome = _to_structured_schema(LastFetched(calls))
          /\ LastFetched(calls) = _schema_json_str
          /\ calls' = calls
          /\ _schema_json_str' = _schema_json_str]_vars

C9_Witness ==
    /\ ret.op = "get_structured_schema"
    /\ Len(calls) = 3
    /\ calls[3].op = "get_schema" /\ calls[3].outcome.status = "return"
    /\ _to_structured_schema(calls[3].outcome.value)
          # _to_structured_schema(calls[2].outcome.value)
    /\ ret.outcome = _to_structured_schema(calls[3].outcome.value)
    /\ ret.outcome.status = "return"

\* C10: a client failure in query or refresh_schema comes after exactly one
\* client call, reaches the caller as raised, and leaves the cached schema and
\* the language untouched; a client failure during construction makes the
\* construction fail, after at most one schema fetch.
C10_NoRetryNoRecovery ==
    [][/\ (ret'.op \in {"query", "refresh_schema"} /\ ret'.outcome.status = "raise") =>
            /\ OneMoreCall(calls, calls')
            /\ Last(calls').outcome = ret'.outcome
            /\ _schema_json_str' = _schema_json_str
            /\ _query_language' = _query_language
       /\ (ret'.op = "__init__" /\ ret'.outcome.status = "raise") =>
            /\ phase' = "failed"
            /\ Len(calls') <= 2
            /\ calls' # <<>> => Last(calls').outcome = ret'.outcome
       /\ phase = "failed" => phase' = "failed"]_vars

C10_Witness ==
    /\ ret.op = "refresh_schema"
    /\ ret.outcome = Raise("ConnectionError")
    /\ Len(calls) = 4
    /\ calls[3].op = "cypher_query" /\ calls[3].outcome.status = "raise"
    /\ _schema_json_str = calls[2].outcome.value

----------------------------------------------------------------------------
\* Properties of the normalizer (under NormSpec), stated against the schema
\* text itself: the definitions below read the text's members directly.

\* The value of the member named key (generated texts name each key once).
Member(t, key) ==
    t.members[CHOOSE i \in DOMAIN t.members : t.members[i][1] = key][2]

VertexDefs(t) == Member(t, "vertices").items
EdgeDefs(t) == Member(t, "edges").items
LabelOf(d) == Member(d, "label").s

\* The attribute definitions of a vertex or edge; none when the key is absent.
AttributesOf(d) ==
    IF HasMember(d, "attributes") THEN Member(d, "attributes").items ELSE <<>>

Declares(d) == AttributesOf(d) # <<>>

\* The {property, type} pairs of a definition, in the order of its array.
Pairs(d) ==
    [i \in DOMAIN AttributesOf(d) |->
        [property |-> Member(AttributesOf(d)[i], "name").s,
         type |-> Member(AttributesOf(d)[i], "type").s]]

Normalized == ret.op = "get_structured_schema" /\ ret.outcome.status = "return"

\* C6 as stated: every vertex's label is a key of node_props holding that
\* vertex's pairs in order ([] without attributes); an edge's label is a key
\* of rel_props, holding its pairs in order, if the edge declares an
\* attribute, and is absent from rel_props if it declares none.
C6_PerDefinition ==
    Normalized =>
        LET V == VertexDefs(_schema_json_str)
            E == EdgeDefs(_schema_json_str)
            node_props == ret.outcome.value.node_props
            rel_props == ret.outcome.value.rel_props
        IN  /\ \A i \in DOMAIN V :
                  /\ LabelOf(V[i]) \in DOMAIN node_props
                  /\ node_props[LabelOf(V[i])] = Pairs(V[i])
            /\ \A j \in DOMAIN E :
                  IF Declares(E[j])
                      THEN /\ LabelOf(E[j]) \in DOMAIN rel_props
                           /\ rel_props[LabelOf(E[j])] = Pairs(E[j])
                      ELSE LabelOf(E[j]) \notin DOMAIN rel_props
            /\ \A l \in DOMAIN rel_props : rel_props[l] # <<>>

\* C6 amended: the keys of node_props are exactly the vertex labels, each
\* holding the pairs, in order, of the last vertex definition with that label
\* ([] when that one has no attributes); the keys of rel_props are exactly the
\* labels of the edges that declare an attribute, each holding the pairs, in
\* order, of the last such edge with that label, never an empty list.  For a
\* label defined once this is the claim as stated.
C6_LastDefinitionWins ==
    Normalized =>
        LET V == VertexDefs(_schema_json_str)
            E == EdgeDefs(_schema_json_str)
            node_props == ret.outcome.value.node_props
            rel_props == ret.outcome.value.rel_props
        IN  /\ DOMAIN node_props = {LabelOf(V[i]) : i \in DOMAIN V}
            /\ \A i \in DOMAIN V :
                  (\A k \in DOMAIN V : k > i => LabelOf(V[k]) # LabelOf(V[i]))
                      => node_props[LabelOf(V[i])] = Pairs(V[i])
            /\ DOMAIN rel_props =
                  {LabelOf(E[j]) : j \in {k \in DOMAIN E : Declares(E[k])}}
            /\ \A j \in DOMAIN E :
                  (/\ Declares(E[j])
                   /\ \A k \in DOMAIN E :
                         (k > j /\ Declares(E[k])) => LabelOf(E[k]) # LabelOf(E[j]))
                      => rel_props[LabelOf(E[j])] = Pairs(E[j])
            /\ \A l \in DOMAIN rel_props : rel_props[l] # <<>>

C6_Witness ==
    /\ Normalized
    /\ LET V == VertexDefs(_schema_json_str)
           E == EdgeDefs(_schema_json_str)
       IN  /\ Len(V) = 2 /\ Len(E) = 2
           /\ ~HasMember(V[1], "attributes")
           /\ Len(AttributesOf(V[2])) = 2
           /\ LabelOf(V[1]) # LabelOf(V[2])
           /\ ret.outcome.value.node_props[LabelOf(V[1])] = <<>>
           /\ HasMember(E[1], "attributes") /\ ~Declares(E[1])
           /\ Len(AttributesOf(E[2])) = 2
           /\ DOMAIN ret.outcome.value.rel_props = {LabelOf(E[2])}
           /\ LabelOf(E[1]) # LabelOf(E[2])

\* C7: relationships has one {start, end, type} triple per edge definition, in
\* the order of "edges", with start = "from", end = "to", type = "label",
\* whether or not the edge has attributes and also when edges share a label.
C7_RelationshipsPerEdge ==
    Normalized =>
        LET E == EdgeDefs(_schema_json_str)
        IN  ret.outcome.value.relationships =
                [j \in DOMAIN E |->
                    [start |-> Member(E[j], "from").s,
                     end |-> Member(E[j], "to").s,
                     type |-> LabelOf(E[j])]]

C7_Witness ==
    /\ Normalized
    /\ LET E == EdgeDefs(_schema_json_str)
       IN  /\ Len(E) = 2
           /\ LabelOf(E[1]) = LabelOf(E[2])
           /\ Declares(E[1]) /\ ~HasMember(E[2], "attributes")
           /\ Member(E[1], "from").s # Member(E[1], "to").s
           /\ Len(ret.outcome.value.relationships) = 2
           /\ Cardinality(DOMAIN ret.outcome.value.rel_props) = 1

====
